---- MODULE Spec2Model ----
(***************************************************************************)
(* The x402 provider node: the payment middleware, the POST /call          *)
(* pipeline of createProviderServer with its statistics, and the registry  *)
(* client with its periodic heartbeat.  Money is counted in micro-USDC     *)
(* (10^-6 USDC), so a price of 0.01 USDC is 10000.                         *)
(***************************************************************************)
EXTENDS Integers, Sequences, FiniteSets, TLC

\* ------------------------------------------------------------------ bounds
MaxCalls == 2
MaxStarts == 2

Calls == 1..MaxCalls
\* the elapsed times Date.now() - startTime a call may measure, in ms
Latencies == {1, 2}

\* ------------------------------------------------------- program constants
\* createProviderServer's default for config.defaultPrice
defaultPrice == 0
\* the default of config.defaultPrice the README documents: 0.01 USDC
DocumentedDefaultPrice == 10000
\* the timeout the /call handler falls back to
DefaultTimeout == 30000
\* chains = ['solana'] unless configured
DefaultChain == "solana"
FreeToken == "free-api-call"

\* ------------------------------------------------------------ environment
\* The node's wallet address and another address.
Wallet == "walletA"
OtherWallet == "walletB"

\* JavaScript values of the request body's fields.
Undefined == [t |-> "undefined"]
Str(s) == [t |-> "string", v |-> s]
Obj == [t |-> "object"]

\* !x for the values above, and for numbers: undefined, the empty string and 0
\* are falsy.
Falsy(x) ==
    \/ x.t = "undefined"
    \/ (x.t = "string" /\ x.v = "")
    \/ (x.t = "number" /\ x.v = 0)

ApiNames == {"echo", "missing"}
Registrable == {"echo"}
ApiValues == {Str("echo"), Str("missing"), Undefined}
ParamValues == {Obj, Undefined}
Chains == {"solana", "base"}
\* the X-Payment-Chain header: "" is an absent header
ChainHeaders == {""} \cup Chains

\* A transaction record of the ledger, as getParsedTransaction and
\* getParsedAccountInfo would report it for a signature.
Tx(found, failed, transfer, dest, owner, isNum, raw) ==
    [throws |-> FALSE, found |-> found, failed |-> failed, transfer |-> transfer,
     destExists |-> dest, owner |-> owner, rawIsNumber |-> isNum, raw |-> raw,
     authority |-> "payer"]

Ledger ==
    [sigPaid       |-> Tx(TRUE, FALSE, TRUE, TRUE, Wallet, TRUE, 10000),
     sigLow        |-> Tx(TRUE, FALSE, TRUE, TRUE, Wallet, TRUE, 5000),
     sigRich       |-> Tx(TRUE, FALSE, TRUE, TRUE, Wallet, TRUE, 25000),
     sigWrongOwner |-> Tx(TRUE, FALSE, TRUE, TRUE, OtherWallet, TRUE, 10000),
     sigNotFound   |-> Tx(FALSE, FALSE, FALSE, FALSE, "", FALSE, 0),
     sigFailed     |-> Tx(TRUE, TRUE, TRUE, TRUE, Wallet, TRUE, 10000),
     sigNoTransfer |-> Tx(TRUE, FALSE, FALSE, FALSE, "", FALSE, 0),
     sigNoDest     |-> Tx(TRUE, FALSE, TRUE, FALSE, "", TRUE, 10000),
     sigNoOwner    |-> Tx(TRUE, FALSE, TRUE, TRUE, "", TRUE, 10000),
     sigNaN        |-> Tx(TRUE, FALSE, TRUE, TRUE, Wallet, FALSE, 0),
     sigNegative   |-> Tx(TRUE, FALSE, TRUE, TRUE, Wallet, TRUE, -10000),
     sigMalformed  |-> [Tx(FALSE, FALSE, FALSE, FALSE, "", FALSE, 0) EXCEPT !.throws = TRUE]]

Signatures == DOMAIN Ledger
\* the X-Payment header: "" is an absent header
Tokens == {"", FreeToken} \cup Signatures

\* ------------------------------------------------------------------ state
VARIABLES
    chains,            \* config.chains, the supported chains
    handlers,          \* the Map name -> { handler, config }
    added,             \* the arguments of the last addAPI call, by name
    stats,             \* the ServerStats object
    totalLatency,
    errorCount,
    calls,             \* every POST /call request, by its position in the pipeline
    server,            \* the http server of start(): "none", "listening", "closed"
    startPc,           \* start(): "idle", or "registering" while register() awaits fetch
    starts,            \* number of start() calls made
    stopPc,            \* stop(): "idle", or "unregistering" while unregister() awaits fetch
    heartbeatInterval, \* RegistryClient.heartbeatInterval: 0, or the id of a timer
    liveTimers,        \* ids of the setInterval timers not cleared
    timerIds,          \* number of setInterval timers created
    lastTick,          \* the last snapshot a periodic tick handed to heartbeat()
    registryAnswer,    \* the registry's last answer to POST /register
    startResult,       \* the promise of the last start(): "none", "pending", ...
    unregisterAnswer   \* the outcome of the last fetch of POST /unregister

vars == <<chains, handlers, added, stats, totalLatency, errorCount, calls, server, startPc,
          starts, stopPc, heartbeatInterval, liveTimers, timerIds, lastTick,
          registryAnswer, startResult, unregisterAnswer>>

callVars == <<handlers, added, stats, totalLatency, errorCount, calls>>
lifeVars == <<server, startPc, starts, stopPc, heartbeatInterval, liveTimers, timerIds,
              lastTick, registryAnswer, startResult, unregisterAnswer>>

\* A rational number num/den, as stats.averageLatency and stats.errorRate hold one.
Ratio(n, d) == [num |-> n, den |-> d]
RatioEq(a, b) == a.num * b.den = b.num * a.den

NoReg == [handler |-> "none"]
NoPayment == [set |-> FALSE]
NoResponse == [status |-> 0]
NoSnapshot == [sent |-> FALSE]

IdleCall ==
    [pc |-> "idle", token |-> "", chainHdr |-> "", api |-> Undefined, params |-> Undefined,
     payment |-> NoPayment, requestId |-> 0, response |-> NoResponse,
     invoked |-> "none", handlerState |-> "none", timer |-> "none", timerMs |-> 0,
     reg |-> NoReg, queries |-> 0, heartbeat |-> NoSnapshot, heartbeatAnswer |-> "none"]

\* ---------------------------------------------------- payment verification
Invalid(err) == [valid |-> FALSE, error |-> err]
Valid(amount, from, sig) ==
    [valid |-> TRUE, amount |-> amount, from |-> from, signature |-> sig]

\* providersConnection: a connection is made for 'solana' when it is configured.
providersConnection(supported) == supported \cap {"solana"}

\* verifySolanaOnChainPayment before its first await: "" when the transaction
\* query is sent, else the error returned at once.
SolanaPrecheck(sig, connections) ==
    IF "solana" \notin connections THEN "Solana connection not established."
    ELSE IF sig = "" THEN "Invalid transaction signature: empty or not a string."
    ELSE ""

\* verifySolanaOnChainPayment on the transaction fetched: "" when the
\* destination account is to be looked up, else the error returned.
TxError(tx) ==
    IF tx.throws THEN "On-chain verification failed"
    ELSE IF ~tx.found THEN "Transaction not found."
    ELSE IF tx.failed THEN "Transaction failed on-chain."
    ELSE IF ~tx.transfer THEN "No valid SPL Token transfer instruction found."
    ELSE ""

WrongRecipient_skipped(owner, providerWallet) == FALSE

\* the recipient check of verifySolanaOnChainPayment
WrongRecipient(owner, providerWallet) == owner # providerWallet

\* the amount check: amountPaid < 0 || isNaN(amountPaid)
InvalidAmount(tx) == ~tx.rawIsNumber \/ tx.raw < 0

AccountResult_onceOnly(tx, sig, providerWallet) ==
    IF \E d \in Calls : calls[d].payment.set /\ calls[d].payment.signature = sig
    THEN Invalid("Transaction already used.")
    ELSE IF ~tx.destExists THEN Invalid("Destination token account not found.")
    ELSE IF tx.owner = ""
         THEN Invalid("Could not determine the owner of the destination token account.")
    ELSE IF WrongRecipient(tx.owner, providerWallet)
         THEN Invalid("Payment was sent to an incorrect account.")
    ELSE IF InvalidAmount(tx) THEN Invalid("Invalid payment amount.")
    ELSE Valid(tx.raw, tx.authority, sig)

\* verifySolanaOnChainPayment once the destination account is fetched.
\* Number(rawAmount) / 1_000_000 USDC is tx.raw micro-USDC.
AccountResult(tx, sig, providerWallet) ==
    IF ~tx.destExists THEN Invalid("Destination token account not found.")
    ELSE IF tx.owner = ""
         THEN Invalid("Could not determine the owner of the destination token account.")
    ELSE IF WrongRecipient(tx.owner, providerWallet)
         THEN Invalid("Payment was sent to an incorrect account.")
    ELSE IF InvalidAmount(tx) THEN Invalid("Invalid payment amount.")
    ELSE Valid(tx.raw, tx.authority, sig)

\* const chain = req.headers['x-payment-chain'] || 'solana'
ChainOf(hdr) == IF hdr = "" THEN DefaultChain ELSE hdr

Unsupported_never(chain, supported) == FALSE

\* !chains.includes(chain)
Unsupported(chain, supported) == chain \notin supported

IsFreeCall_sentinelOnly(token) == token = FreeToken

\* !paymentToken || paymentToken === 'free-api-call'
IsFreeCall(token) == token = "" \/ token = FreeToken

\* ------------------------------------------------------------- POST /call
Reply(status, msg) == [status |-> status, error |-> <<msg>>]
Failure(msg, id, lat) ==
    [status |-> 500, error |-> msg, requestId |-> id, latency |-> lat]

\* handlers.get(api)
Lookup(name) == IF name \in DOMAIN handlers THEN handlers[name] ELSE NoReg

\* !api || typeof api !== 'string'
BadApi(api) == Falsy(api) \/ api.t # "string"
BadParams_never(params) == FALSE

\* !params || typeof params !== 'object'
BadParams(params) == Falsy(params) \/ params.t # "object"

Underpaid_swapped(payment, reg) == reg.price < payment.amount

\* payment.amount < apiConfig.price
Underpaid(payment, reg) == payment.amount < reg.price

\* const timeout = apiConfig.timeout || 30000
TimeoutOf(t) == IF Falsy(t) THEN DefaultTimeout ELSE t.v

\* errorCount after the lookup of an unregistered API: the increment before
\* the throw, then the increment of the catch block.
AfterNotFound(n) == (n + 1) + 1

AfterCatch_forgotten(n) == n

\* errorCount after the catch block alone.
AfterCatch(n) == n + 1

\* The /call handler from its entry to its first await, for request r (its
\* payment attached by the middleware): the request afterwards, and errorCount.
CallHandler(r, id, lat) ==
    LET q == [r EXCEPT !.requestId = id] IN
    IF BadApi(q.api)
    THEN [call |-> [q EXCEPT !.pc = "done",
                             !.response = Reply(400, "Missing or invalid API name")],
          errorCount |-> errorCount]
    ELSE IF BadParams(q.params)
    THEN [call |-> [q EXCEPT !.pc = "done",
                             !.response = Reply(400, "Missing or invalid params")],
          errorCount |-> errorCount]
    ELSE IF Lookup(q.api.v) = NoReg
    THEN [call |-> [q EXCEPT !.pc = "done",
                             !.response = Failure(<<"API not found: ", q.api.v>>, id, lat)],
          errorCount |-> AfterNotFound(errorCount)]
    ELSE LET reg == Lookup(q.api.v) IN
         IF Underpaid(q.payment, reg)
         THEN [call |-> [q EXCEPT !.pc = "done",
                                  !.response = [status |-> 402,
                                                error |-> <<"Insufficient payment">>,
                                                required |-> reg.price,
                                                received |-> q.payment.amount]],
               errorCount |-> errorCount]
         ELSE [call |-> [q EXCEPT !.pc = "racing", !.reg = reg,
                                  !.invoked = reg.handler, !.handlerState = "pending",
                                  !.timer = "armed", !.timerMs = TimeoutOf(reg.timeout)],
               errorCount |-> errorCount]

\* (req as any).payment = {...}; next(): the route handler runs at once.
Proceed(c, r, payment, lat) ==
    LET out == CallHandler([r EXCEPT !.payment = payment], c, lat) IN
    /\ calls' = [calls EXCEPT ![c] = out.call]
    /\ errorCount' = out.errorCount

\* the middleware answers itself: the route handler never runs
Reject(c, r, response) ==
    /\ calls' = [calls EXCEPT ![c] = [r EXCEPT !.pc = "done", !.response = response]]
    /\ errorCount' = errorCount

\* paymentMiddleware from the arrival of a POST /call to its first await.
\* Requests reach the middleware while the server listens; request c is the
\* c-th to arrive; env.serial admits a request only when no other is in flight.
paymentMiddleware(c, env) ==
    /\ server = "listening"
    /\ calls[c].pc = "idle"
    /\ \A d \in Calls : d < c => calls[d].pc # "idle"
    /\ env.serial => \A d \in Calls : calls[d].pc \in {"idle", "done"}
    /\ \E token \in env.tokens, hdr \in env.hdrs, api \in env.apis,
          params \in env.params, lat \in Latencies :
         LET r == [calls[c] EXCEPT !.token = token, !.chainHdr = hdr,
                                   !.api = api, !.params = params]
             chain == ChainOf(hdr)
         IN IF IsFreeCall(token)
            THEN Proceed(c, r, [set |-> TRUE, amount |-> 0, from |-> "unknown",
                                signature |-> token, chain |-> chain], lat)
            ELSE IF Unsupported(chain, chains)
            THEN Reject(c, r, [status |-> 400, error |-> <<"Unsupported chain">>,
                               supported |-> chains])
            ELSE IF chain # "solana"
            THEN Reject(c, r, [status |-> 402, error |-> <<"Invalid payment">>,
                               message |-> "Unsupported chain for payment verification."])
            ELSE IF SolanaPrecheck(token, providersConnection(chains)) # ""
            THEN Reject(c, r, [status |-> 402, error |-> <<"Invalid payment">>,
                               message |-> SolanaPrecheck(token, providersConnection(chains))])
            ELSE /\ calls' = [calls EXCEPT ![c] = [r EXCEPT !.pc = "txQuery", !.queries = 1]]
                 /\ errorCount' = errorCount
    /\ UNCHANGED <<chains, handlers, added, stats, totalLatency>>
    /\ UNCHANGED lifeVars

\* connection.getParsedTransaction answers.
TransactionFetched(c) ==
    /\ calls[c].pc = "txQuery"
    /\ LET r == calls[c]
           tx == Ledger[r.token]
       IN IF TxError(tx) # ""
          THEN Reject(c, r, [status |-> 402, error |-> <<"Invalid payment">>,
                             message |-> TxError(tx)])
          ELSE /\ calls' = [calls EXCEPT ![c] = [r EXCEPT !.pc = "accountQuery",
                                                          !.queries = 2]]
               /\ errorCount' = errorCount
    /\ UNCHANGED <<chains, handlers, added, stats, totalLatency>>
    /\ UNCHANGED lifeVars

\* connection.getParsedAccountInfo answers; the middleware finishes.
AccountFetched(c) ==
    /\ calls[c].pc = "accountQuery"
    /\ \E lat \in Latencies :
         LET r == calls[c]
             payment == AccountResult(Ledger[r.token], r.token, Wallet)
         IN IF ~payment.valid
            THEN Reject(c, r, [status |-> 402, error |-> <<"Invalid payment">>,
                               message |-> payment.error])
            ELSE Proceed(c, r, [set |-> TRUE, amount |-> payment.amount,
                                from |-> payment.from, signature |-> r.token,
                                chain |-> ChainOf(r.chainHdr)], lat)
    /\ UNCHANGED <<chains, handlers, added, stats, totalLatency>>
    /\ UNCHANGED lifeVars

UpdateStats_overwritten(st, price, total, errors) ==
    [requestsServed |-> st.requestsServed + 1,
     totalEarnings |-> price,
     averageLatency |-> Ratio(total, st.requestsServed + 1),
     errorRate |-> Ratio(errors, st.requestsServed + 1)]

UpdateStats_noEarnings(st, price, total, errors) ==
    [requestsServed |-> st.requestsServed + 1,
     totalEarnings |-> st.totalEarnings,
     averageLatency |-> Ratio(total, st.requestsServed + 1),
     errorRate |-> Ratio(errors, st.requestsServed + 1)]

\* the "Update stats" block of the success path
UpdateStats(st, price, total, errors) ==
    [requestsServed |-> st.requestsServed + 1,
     totalEarnings |-> st.totalEarnings + price,
     averageLatency |-> Ratio(total, st.requestsServed + 1),
     errorRate |-> Ratio(errors, st.requestsServed + 1)]

\* the health the success path hands to registryClient.heartbeat
Snapshot(lat, served, errors) ==
    [sent |-> TRUE, latency |-> lat, requestsServed |-> served, errors |-> errors]

\* Promise.race settled by the handler: stats, then the awaited heartbeat.
Succeed(c, lat) ==
    LET st == UpdateStats(stats, calls[c].reg.price, totalLatency + lat, errorCount) IN
    /\ stats' = st
    /\ totalLatency' = totalLatency + lat
    /\ calls' = [calls EXCEPT ![c].pc = "heartbeat", ![c].handlerState = "resolved",
                              ![c].heartbeat = Snapshot(lat, st.requestsServed, errorCount)]
    /\ errorCount' = errorCount

\* the catch block of the /call handler
Fail(c, msg, lat) ==
    /\ errorCount' = AfterCatch(errorCount)
    /\ UNCHANGED <<stats, totalLatency>>

HandlerResolves_lateCounts(c) ==
    /\ calls[c].handlerState = "pending"
    /\ \E lat \in Latencies : Succeed(c, lat)
    /\ UNCHANGED <<chains, handlers, added>>
    /\ UNCHANGED lifeVars

\* The handler's promise resolves.
HandlerResolves(c) ==
    /\ calls[c].handlerState = "pending"
    /\ IF calls[c].pc = "racing"
       THEN \E lat \in Latencies : Succeed(c, lat)
       ELSE /\ calls' = [calls EXCEPT ![c].handlerState = "resolved"]
            /\ UNCHANGED <<stats, totalLatency, errorCount>>
    /\ UNCHANGED <<chains, handlers, added>>
    /\ UNCHANGED lifeVars

\* The handler's promise rejects.
HandlerRejects(c) ==
    /\ calls[c].handlerState = "pending"
    /\ IF calls[c].pc = "racing"
       THEN \E lat \in Latencies :
              /\ Fail(c, <<"handler failed">>, lat)
              /\ calls' = [calls EXCEPT ![c].pc = "done", ![c].handlerState = "rejected",
                              ![c].response =
                                  Failure(<<"handler failed">>, calls[c].requestId, lat)]
       ELSE /\ calls' = [calls EXCEPT ![c].handlerState = "rejected"]
            /\ UNCHANGED <<stats, totalLatency, errorCount>>
    /\ UNCHANGED <<chains, handlers, added>>
    /\ UNCHANGED lifeVars

\* The setTimeout of the race fires: reject(new Error('Handler timeout')).
TimerFires(c) ==
    /\ calls[c].timer = "armed"
    /\ IF calls[c].pc = "racing"
       THEN \E lat \in Latencies :
              /\ Fail(c, <<"Handler timeout">>, lat)
              /\ calls' = [calls EXCEPT ![c].pc = "done", ![c].timer = "fired",
                              ![c].response =
                                  Failure(<<"Handler timeout">>, calls[c].requestId, lat)]
       ELSE /\ calls' = [calls EXCEPT ![c].timer = "fired"]
            /\ UNCHANGED <<stats, totalLatency, errorCount>>
    /\ UNCHANGED <<chains, handlers, added>>
    /\ UNCHANGED lifeVars

HeartbeatSettles_propagates(c, env) ==
    /\ calls[c].pc = "heartbeat"
    /\ \E answer \in env.answers :
         IF answer = "failed"
         THEN /\ calls' = [calls EXCEPT ![c].pc = "done", ![c].heartbeatAnswer = answer,
                              ![c].response = Failure(<<"fetch failed">>,
                                                      calls[c].requestId,
                                                      calls[c].heartbeat.latency)]
              /\ errorCount' = AfterCatch(errorCount)
              /\ UNCHANGED <<chains, handlers, added, stats, totalLatency>>
         ELSE /\ calls' = [calls EXCEPT ![c].pc = "done", ![c].heartbeatAnswer = answer,
                              ![c].response = [status |-> 200, data |-> calls[c].invoked,
                                               requestId |-> calls[c].requestId,
                                               latency |-> calls[c].heartbeat.latency,
                                               cost |-> calls[c].reg.price]]
              /\ UNCHANGED <<chains, handlers, added, stats, totalLatency, errorCount>>
    /\ UNCHANGED lifeVars

\* The fetch of registryClient.heartbeat settles: the registry answers with a
\* success status ("ok") or another one ("refused"; the status is not looked
\* at), or the fetch fails and heartbeat() catches the failure ("failed").  The
\* handler resumes and answers.
HeartbeatSettles(c, env) ==
    /\ calls[c].pc = "heartbeat"
    /\ \E answer \in env.answers :
         calls' = [calls EXCEPT ![c].pc = "done", ![c].heartbeatAnswer = answer,
                      ![c].response = [status |-> 200, data |-> calls[c].invoked,
                                       requestId |-> calls[c].requestId,
                                       latency |-> calls[c].heartbeat.latency,
                                       cost |-> calls[c].reg.price]]
    /\ UNCHANGED <<chains, handlers, added, stats, totalLatency, errorCount>>
    /\ UNCHANGED lifeVars

\* getStats(): the stats object (uptime, computed at the read, left out)
getStats == stats

\* ------------------------------------------------------------ the server
\* config?.price ?? defaultPrice
PriceOf(price) == IF price.t = "undefined" THEN defaultPrice ELSE price.v

Num(n) == [t |-> "number", v |-> n]

\* the registration addAPI(name, handler, { price, timeout }) stores
Registration(handler, price, timeout) ==
    [handler |-> handler, price |-> PriceOf(price), timeout |-> timeout]

MapSet_keepFirst(map, name, value) ==
    [n \in DOMAIN map \cup {name} |-> IF n \in DOMAIN map THEN map[n] ELSE value]

\* handlers.set(name, value)
MapSet(map, name, value) ==
    [n \in DOMAIN map \cup {name} |-> IF n = name THEN value ELSE map[n]]

addAPI(name, handler, price, timeout) ==
    /\ handlers' = MapSet(handlers, name, Registration(handler, price, timeout))
    /\ added' = [n \in DOMAIN added \cup {name} |->
                   IF n = name
                   THEN [handler |-> handler, price |-> price, timeout |-> timeout]
                   ELSE added[n]]
    /\ UNCHANGED <<chains, stats, totalLatency, errorCount, calls>>
    /\ UNCHANGED lifeVars

\* RegistryClient.startHeartbeat
startHeartbeat ==
    /\ timerIds' = timerIds + 1
    /\ heartbeatInterval' = timerIds + 1
    /\ liveTimers' = liveTimers \cup {timerIds + 1}

\* RegistryClient.stopHeartbeat
stopHeartbeat ==
    /\ liveTimers' = IF heartbeatInterval # 0 THEN liveTimers \ {heartbeatInterval}
                     ELSE liveTimers
    /\ UNCHANGED <<heartbeatInterval, timerIds>>

\* start() up to the fetch of registryClient.register.  The port is bound
\* while the server listens, so start() is taken while it does not.
start ==
    /\ startPc = "idle"
    /\ server # "listening"
    /\ starts < MaxStarts
    /\ starts' = starts + 1
    /\ startPc' = "registering"
    /\ startResult' = "pending"
    /\ UNCHANGED <<server, stopPc, heartbeatInterval, liveTimers, timerIds, lastTick,
                   chains, registryAnswer, unregisterAnswer>>
    /\ UNCHANGED callVars

\* The registry answers the registration with a success status: register()
\* starts the heartbeat, start() listens and resolves.
RegisterAccepted ==
    /\ startPc = "registering"
    /\ registryAnswer' = "ok"
    /\ startHeartbeat
    /\ server' = "listening"
    /\ startPc' = "idle"
    /\ startResult' = "resolved"
    /\ UNCHANGED <<starts, stopPc, lastTick, chains, unregisterAnswer>>
    /\ UNCHANGED callVars

RegisterRefused_swallowed(answer) ==
    /\ startPc = "registering"
    /\ registryAnswer' = answer
    /\ startHeartbeat
    /\ server' = "listening"
    /\ startPc' = "idle"
    /\ startResult' = "resolved"
    /\ UNCHANGED <<starts, stopPc, lastTick, chains, unregisterAnswer>>
    /\ UNCHANGED callVars

\* The registry answers with a non-success status ("refused"), or the fetch
\* fails ("failed"): register() throws RegistryError and start() rejects.
RegisterRefused(answer) ==
    /\ startPc = "registering"
    /\ registryAnswer' = answer
    /\ startPc' = "idle"
    /\ startResult' = "rejected"
    /\ UNCHANGED <<server, starts, stopPc, heartbeatInterval, liveTimers, timerIds,
                   lastTick, chains, unregisterAnswer>>
    /\ UNCHANGED callVars

\* stop() up to the fetch of registryClient.unregister
stop ==
    /\ server # "none"
    /\ stopPc = "idle"
    /\ stopHeartbeat
    /\ stopPc' = "unregistering"
    /\ UNCHANGED <<server, startPc, starts, lastTick, chains, registryAnswer,
                   startResult, unregisterAnswer>>
    /\ UNCHANGED callVars

\* The fetch of unregister settles: the registry answers with a success status
\* ("ok") or another one ("refused"; the status is not looked at), or the fetch
\* fails and the failure is caught ("failed").  stop() closes the server.
UnregisterSettles(answer) ==
    /\ stopPc = "unregistering"
    /\ unregisterAnswer' = answer
    /\ stopPc' = "idle"
    /\ server' = "closed"
    /\ UNCHANGED <<startPc, starts, heartbeatInterval, liveTimers, timerIds, lastTick,
                   chains, registryAnswer, startResult>>
    /\ UNCHANGED callVars

\* A setInterval timer of startHeartbeat ticks.
Tick(t) ==
    /\ t \in liveTimers
    /\ lastTick' = Snapshot(0, 0, 0)
    /\ UNCHANGED <<server, startPc, starts, stopPc, heartbeatInterval, liveTimers,
                   timerIds, chains, registryAnswer, startResult, unregisterAnswer>>
    /\ UNCHANGED callVars

\* ------------------------------------------- the registry client on its own
\* RegistryClient is an exported class: an application may call register() and
\* unregister() on a client itself, in any order and any number of times, each
\* call awaited before the next.  startPc, starts and startResult then describe
\* the register() calls, stopPc the unregister() calls.

\* register() up to its fetch
register ==
    /\ startPc = "idle"
    /\ stopPc = "idle"
    /\ starts < MaxStarts
    /\ starts' = starts + 1
    /\ startPc' = "registering"
    /\ startResult' = "pending"
    /\ UNCHANGED <<server, stopPc, heartbeatInterval, liveTimers, timerIds, lastTick,
                   chains, registryAnswer, unregisterAnswer>>
    /\ UNCHANGED callVars

\* The registry answers with a success status: register() starts the heartbeat
\* and returns.
RegisterReturns ==
    /\ startPc = "registering"
    /\ registryAnswer' = "ok"
    /\ startHeartbeat
    /\ startPc' = "idle"
    /\ startResult' = "resolved"
    /\ UNCHANGED <<server, starts, stopPc, lastTick, chains, unregisterAnswer>>
    /\ UNCHANGED callVars

\* unregister() up to its fetch: the heartbeat is stopped first
unregister ==
    /\ startPc = "idle"
    /\ stopPc = "idle"
    /\ stopHeartbeat
    /\ stopPc' = "unregistering"
    /\ UNCHANGED <<server, startPc, starts, lastTick, chains, registryAnswer,
                   startResult, unregisterAnswer>>
    /\ UNCHANGED callVars

\* The fetch of unregister() settles, a failure is caught: unregister() returns.
UnregisterReturns(answer) ==
    /\ stopPc = "unregistering"
    /\ unregisterAnswer' = answer
    /\ stopPc' = "idle"
    /\ UNCHANGED <<server, startPc, starts, heartbeatInterval, liveTimers, timerIds,
                   lastTick, chains, registryAnswer, startResult>>
    /\ UNCHANGED callVars

\* ----------------------------------------------------------- specification
\* How a fetch of the registry client may settle.
FetchOutcomes == {"ok", "refused", "failed"}

Handlers == {"h1", "h2"}
PriceArgs == {Undefined, Num(10000), Num(-10000)}
TimeoutArgs == {Undefined, Num(0), Num(1000)}

\* What the clients and the operator of the node do, per specification.
DispatchEnv ==
    [tokens |-> {FreeToken, "sigPaid", "sigRich", "sigWrongOwner"},
     hdrs |-> {""}, apis |-> ApiValues, params |-> ParamValues, serial |-> FALSE,
     handlers |-> {"h1"}, prices |-> {Num(10000)}, timeouts |-> {Num(1000)},
     answers |-> {"ok", "failed"}]

InitWith(configs) ==
    /\ chains \in configs
    /\ handlers = [n \in {} |-> NoReg]
    /\ added = [n \in {} |-> NoReg]
    /\ stats = [requestsServed |-> 0, totalEarnings |-> 0,
                averageLatency |-> Ratio(0, 1), errorRate |-> Ratio(0, 1)]
    /\ totalLatency = 0
    /\ errorCount = 0
    /\ calls = [c \in Calls |-> IdleCall]
    /\ server = "none"
    /\ startPc = "idle"
    /\ starts = 0
    /\ stopPc = "idle"
    /\ heartbeatInterval = 0
    /\ liveTimers = {}
    /\ timerIds = 0
    /\ lastTick = NoSnapshot
    /\ registryAnswer = "none"
    /\ startResult = "none"
    /\ unregisterAnswer = "none"

Init == InitWith({{"solana"}})

Next ==
    \/ \E c \in Calls : paymentMiddleware(c, DispatchEnv)
    \/ \E c \in Calls : TransactionFetched(c)
    \/ \E c \in Calls : AccountFetched(c)
    \/ \E c \in Calls : HandlerResolves(c)
    \/ \E c \in Calls : HandlerRejects(c)
    \/ \E c \in Calls : TimerFires(c)
    \/ \E c \in Calls : HeartbeatSettles(c, DispatchEnv)
    \/ \E n \in Registrable, h \in DispatchEnv.handlers, p \in DispatchEnv.prices,
          t \in DispatchEnv.timeouts : addAPI(n, h, p, t)
    \/ start
    \/ RegisterAccepted

Spec == Init /\ [][Next]_vars

\* The dispatcher with the weak fairness of everything but the registry's
\* answer to a heartbeat: chain queries are answered, handlers settle and
\* timers fire, while the registry may stay silent.
LiveSpec ==
    /\ Init
    /\ [][Next]_vars
    /\ \A c \in Calls :
          /\ WF_vars(TransactionFetched(c))
          /\ WF_vars(AccountFetched(c))
          /\ WF_vars(HandlerResolves(c))
          /\ WF_vars(HandlerRejects(c))
          /\ WF_vars(TimerFires(c))

\* The life cycle of the node: start, registration, the periodic heartbeat and
\* stop, with paid requests to one registered API.
LifeEnv ==
    [tokens |-> {"sigPaid"}, hdrs |-> {""}, apis |-> {Str("echo")}, params |-> {Obj},
     serial |-> TRUE, handlers |-> {"h1"}, prices |-> {Num(10000)},
     timeouts |-> {Num(1000)}, answers |-> {"ok", "failed"}]

LifeNext ==
    \/ \E c \in Calls : paymentMiddleware(c, LifeEnv)
    \/ \E c \in Calls : TransactionFetched(c)
    \/ \E c \in Calls : AccountFetched(c)
    \/ \E c \in Calls : HandlerResolves(c)
    \/ \E c \in Calls : HandlerRejects(c)
    \/ \E c \in Calls : TimerFires(c)
    \/ \E c \in Calls : HeartbeatSettles(c, LifeEnv)
    \/ \E n \in Registrable, h \in LifeEnv.handlers, p \in LifeEnv.prices,
          t \in LifeEnv.timeouts : addAPI(n, h, p, t)
    \/ start
    \/ RegisterAccepted
    \/ \E answer \in {"refused", "failed"} : RegisterRefused(answer)
    \/ stop
    \/ \E answer \in LifeEnv.answers : UnregisterSettles(answer)
    \/ \E t \in liveTimers : Tick(t)

LifeSpec == Init /\ [][LifeNext]_vars

\* The registration API: addAPI at any moment, without a price, with a price,
\* with a negative price, with and without a timeout, with either handler,
\* and free and paid requests to the API served one at a time.
ConfigArgs ==
    {[handler |-> "h1", price |-> Undefined, timeout |-> Undefined],
     [handler |-> "h2", price |-> Num(10000), timeout |-> Num(1000)],
     [handler |-> "h2", price |-> Num(-10000), timeout |-> Num(0)]}

ConfigEnv ==
    [tokens |-> {FreeToken, "sigPaid"}, hdrs |-> {""}, apis |-> {Str("echo")},
     params |-> {Obj}, serial |-> TRUE, handlers |-> Handlers, prices |-> PriceArgs,
     timeouts |-> TimeoutArgs, answers |-> {"ok"}]

ConfigNext ==
    \/ \E c \in Calls : paymentMiddleware(c, ConfigEnv)
    \/ \E c \in Calls : TransactionFetched(c)
    \/ \E c \in Calls : AccountFetched(c)
    \/ \E c \in Calls : HandlerResolves(c)
    \/ \E c \in Calls : HandlerRejects(c)
    \/ \E c \in Calls : TimerFires(c)
    \/ \E c \in Calls : HeartbeatSettles(c, ConfigEnv)
    \/ \E n \in Registrable, cfg \in ConfigArgs :
          addAPI(n, cfg.handler, cfg.price, cfg.timeout)
    \/ start
    \/ RegisterAccepted

ConfigSpec == Init /\ [][ConfigNext]_vars

\* A registry client driven by an application.
ClientNext ==
    \/ register
    \/ RegisterReturns
    \/ \E answer \in {"refused", "failed"} : RegisterRefused(answer)
    \/ unregister
    \/ \E answer \in FetchOutcomes : UnregisterReturns(answer)
    \/ \E t \in liveTimers : Tick(t)

ClientSpec == Init /\ [][ClientNext]_vars

\* Payment verification: every proof token and chain header against every
\* configuration of chains, one request at a time, one registered API.
ChainConfigs == {{"solana"}, {"solana", "base"}, {"base"}}

VerifyEnv ==
    [tokens |-> Tokens \ {"sigRich"}, hdrs |-> ChainHeaders, apis |-> {Str("echo")},
     params |-> {Obj},
     serial |-> TRUE, handlers |-> {"h1"}, prices |-> {Num(10000)},
     timeouts |-> {Num(1000)}, answers |-> {"ok"}]

VerifyInit == InitWith(ChainConfigs)

VerifyNext ==
    \/ \E c \in Calls : paymentMiddleware(c, VerifyEnv)
    \/ \E c \in Calls : TransactionFetched(c)
    \/ \E c \in Calls : AccountFetched(c)
    \/ \E c \in Calls : HandlerResolves(c)
    \/ \E c \in Calls : HandlerRejects(c)
    \/ \E c \in Calls : TimerFires(c)
    \/ \E c \in Calls : HeartbeatSettles(c, VerifyEnv)
    \/ \E n \in Registrable, h \in VerifyEnv.handlers, p \in VerifyEnv.prices,
          t \in VerifyEnv.timeouts : addAPI(n, h, p, t)
    \/ start
    \/ RegisterAccepted

VerifySpec == VerifyInit /\ [][VerifyNext]_vars

\* ------------------------------------------------------------------ claims
\* The step in which the /call handler of request c runs from its entry to its
\* first await (or to its answer).
Routed(c) == calls[c].requestId = 0 /\ calls'[c].requestId # 0

\* The registration the lookup of that step finds.
Found(c) == Lookup(calls'[c].api.v)

WellShaped(r) == ~BadApi(r.api) /\ ~BadParams(r.params)

\* C1: a handler is invoked only for a payment claim of at least the price of
\* the registration found; a claim below the price is answered 402 with
\* required = the price and received = the claim's amount, invokes no handler
\* and leaves requestsServed, totalEarnings, the cumulative latency and the
\* error counter as they were.
C1_PriceGate ==
    [][\A c \in Calls :
         /\ (calls'[c].invoked # "none"
               => calls'[c].payment.amount >= calls'[c].reg.price)
         /\ ("required" \in DOMAIN calls'[c].response
               => calls'[c].invoked = "none" /\ calls'[c].handlerState = "none")
         /\ (/\ Routed(c)
             /\ WellShaped(calls'[c])
             /\ Found(c) # NoReg
             /\ calls'[c].payment.amount < Found(c).price)
            => /\ calls'[c].response =
                     [status |-> 402, error |-> <<"Insufficient payment">>,
                      required |-> Found(c).price,
                      received |-> calls'[c].payment.amount]
               /\ calls'[c].invoked = "none"
               /\ UNCHANGED <<stats, totalLatency, errorCount>>]_vars

C1_Witness ==
    \E c \in Calls :
        /\ calls[c].response.status = 402
        /\ "required" \in DOMAIN calls[c].response
        /\ calls[c].response.required = 10000
        /\ calls[c].response.received = 0

\* The verification of request c's proof token returned valid = true: the
\* middleware attached the claim of a token that is not a free call.
VerifiedValid(c) == calls[c].payment.set /\ ~IsFreeCall(calls[c].token)

\* A transaction that pays into a token account owned by someone else.
PaysSomeoneElse(tx) ==
    /\ ~tx.throws /\ tx.found /\ ~tx.failed /\ tx.transfer /\ tx.destExists
    /\ tx.owner # "" /\ tx.owner # Wallet

\* C2: a proof token that is neither empty nor the sentinel verifies as valid
\* only if a connection exists for the chain, the transaction is found, did not
\* fail, holds a token transfer, its destination account resolves with an owner,
\* the owner is the node's wallet and the amount is a non-negative number; a
\* transaction paying another owner is never valid, is answered 402 and invokes
\* no handler.
C2_ValidOnlyIfAllChecks ==
    \A c \in Calls :
        /\ VerifiedValid(c) =>
              LET tx == Ledger[calls[c].token] IN
              /\ ChainOf(calls[c].chainHdr) \in providersConnection(chains)
              /\ ~tx.throws /\ tx.found /\ ~tx.failed /\ tx.transfer
              /\ tx.destExists /\ tx.owner # "" /\ tx.owner = Wallet
              /\ tx.rawIsNumber /\ tx.raw >= 0
        /\ (calls[c].token \in Signatures /\ PaysSomeoneElse(Ledger[calls[c].token])) =>
              /\ ~calls[c].payment.set
              /\ calls[c].invoked = "none"
              /\ (calls[c].pc = "done" /\ ChainOf(calls[c].chainHdr) \in chains)
                    => calls[c].response.status = 402

C2_Witness ==
    \E c \in Calls :
        /\ calls[c].token = "sigWrongOwner"
        /\ calls[c].queries = 2
        /\ calls[c].response =
              [status |-> 402, error |-> <<"Invalid payment">>,
               message |-> "Payment was sent to an incorrect account."]

\* C3: a request presenting the sentinel token, or no token, is authorized with
\* a claim of amount 0 from "unknown" whatever chain it names and whatever chains
\* the node supports, and no chain query is made for it.
C3_FreeCallAlwaysAuthorized ==
    \A c \in Calls :
        (calls[c].pc # "idle" /\ calls[c].token \in {"", FreeToken}) =>
            /\ calls[c].payment.set
            /\ calls[c].payment.amount = 0
            /\ calls[c].payment.from = "unknown"
            /\ calls[c].requestId # 0
            /\ calls[c].queries = 0
            /\ calls[c].response.status \notin {400, 402}
               \/ "required" \in DOMAIN calls[c].response

C3_Witness ==
    \E c, d \in Calls :
        /\ calls[c].token = FreeToken
        /\ ChainOf(calls[c].chainHdr) \notin chains
        /\ calls[c].payment.set /\ calls[c].payment.amount = 0
        /\ calls[c].queries = 0
        /\ calls[d].token = ""
        /\ calls[d].payment.set

\* The step in which the timer of request c fires while the race is undecided.
TimedOut(c) ==
    calls[c].pc = "racing" /\ calls[c].timer = "armed" /\ calls'[c].timer = "fired"

IsTimeoutFailure(r) ==
    r.pc = "done" /\ r.response.status = 500 /\ r.response.error = <<"Handler timeout">>

\* C4: when the timer of a request fires before its handler has settled, the
\* request ends in a 500 answer whose message names the timeout, the error
\* counter goes up by one, and requestsServed and totalEarnings stay; nothing
\* the request does afterwards touches a counter.  A registration with a
\* positive timeout T arms the timer with T.
C4_TimeoutFailure ==
    [][\A c \in Calls :
         /\ TimedOut(c) =>
               /\ IsTimeoutFailure(calls'[c])
               /\ calls'[c].handlerState = "pending"
               /\ errorCount' = errorCount + 1
               /\ stats'.requestsServed = stats.requestsServed
               /\ stats'.totalEarnings = stats.totalEarnings
         /\ (IsTimeoutFailure(calls[c]) /\ calls'[c] # calls[c]) =>
               /\ errorCount' = errorCount
               /\ stats' = stats
               /\ calls'[c].response = calls[c].response
         /\ (calls'[c].timer = "armed" /\ calls'[c].reg.timeout.t = "number"
               /\ calls'[c].reg.timeout.v > 0) =>
               calls'[c].timerMs = calls'[c].reg.timeout.v]_vars

C4_Witness ==
    \E c \in Calls :
        /\ IsTimeoutFailure(calls[c])
        /\ calls[c].handlerState = "pending"
        /\ calls[c].timerMs = 1000
        /\ errorCount = 1
        /\ stats.requestsServed = 0

\* The step in which the handler of request c resolves while the race is
\* undecided.
ResolvedInTime(c) ==
    calls[c].pc = "racing" /\ calls[c].handlerState = "pending"
        /\ calls'[c].handlerState = "resolved"

\* C5: a request whose handler resolves before its timer fires adds one to
\* requestsServed and the price of its registration (not the amount paid) to
\* totalEarnings, leaves the error counter alone, and the answer it gets is 200
\* with cost = that price.
C5_SuccessAccounting ==
    [][\A c \in Calls :
         /\ ResolvedInTime(c) =>
               /\ stats'.requestsServed = stats.requestsServed + 1
               /\ stats'.totalEarnings = stats.totalEarnings + calls[c].reg.price
               /\ errorCount' = errorCount
               /\ calls'[c].response = NoResponse
         /\ (calls[c].heartbeat.sent /\ calls'[c].response # calls[c].response) =>
               /\ calls[c].response = NoResponse
               /\ calls'[c].response.status = 200
               /\ calls'[c].response.cost = calls[c].reg.price
               /\ calls'[c].response.requestId = calls[c].requestId
               /\ errorCount' = errorCount
               /\ stats' = stats]_vars

C5_Witness ==
    \E c \in Calls :
        /\ calls[c].token = "sigRich"
        /\ calls[c].payment.set
        /\ calls[c].payment.amount = 25000
        /\ calls[c].response.status = 200
        /\ calls[c].response.cost = 10000
        /\ stats.requestsServed = 1
        /\ stats.totalEarnings = 10000
        /\ errorCount = 0

\* C6: once a request has succeeded (its stats are recorded and its heartbeat
\* is on its way), its caller eventually gets the 200 answer, also when the
\* registry never answers the heartbeat.
C6_ResponseNotBlockedByHeartbeat ==
    \A c \in Calls : (calls[c].pc = "heartbeat") ~> (calls[c].response.status = 200)

\* C7: every failure answer to POST /call (400, 402, 500) carries the request
\* identifier of its request, which is assigned before the payment is verified.
C7_FailuresCarryRequestId ==
    \A c \in Calls :
        /\ calls[c].pc \in {"txQuery", "accountQuery"} => calls[c].requestId # 0
        /\ calls[c].response.status \in {400, 402, 500} =>
              /\ calls[c].requestId # 0
              /\ "requestId" \in DOMAIN calls[c].response
              /\ calls[c].response.requestId = calls[c].requestId

\* C8: whenever requestsServed > 0, the errorRate of getStats() is
\* errorCount / requestsServed for the current counters.
C8_ErrorRateIsCurrent ==
    getStats.requestsServed > 0 =>
        RatioEq(getStats.errorRate, Ratio(errorCount, getStats.requestsServed))

\* C9: a well-shaped, authorized request for an API that is not registered is
\* answered 500 with a message naming the API, invokes no handler, leaves
\* requestsServed and totalEarnings alone and adds exactly one to the error
\* counter.
C9_UnknownApiCountedOnce ==
    [][\A c \in Calls :
         (Routed(c) /\ WellShaped(calls'[c]) /\ Found(c) = NoReg) =>
            /\ calls'[c].response.status = 500
            /\ calls'[c].response.error = <<"API not found: ", calls'[c].api.v>>
            /\ calls'[c].invoked = "none"
            /\ stats' = stats
            /\ errorCount' = errorCount + 1]_vars

\* The step in which the registry's answer to POST /register arrives and is
\* not a success.
RegistrationFails ==
    startPc = "registering" /\ startPc' = "idle" /\ registryAnswer' # "ok"

\* C10: when the registry refuses the registration or the request fails,
\* start() rejects, the server does not listen and no heartbeat timer is
\* started; the server starts listening only in the step in which a
\* registration is accepted.
C10_NoServiceWithoutRegistration ==
    [][/\ RegistrationFails =>
            /\ startResult' = "rejected"
            /\ server' = server
            /\ server' # "listening"
            /\ UNCHANGED <<liveTimers, heartbeatInterval, timerIds>>
       /\ (server # "listening" /\ server' = "listening") =>
            /\ startPc = "registering"
            /\ registryAnswer' = "ok"
            /\ startResult' = "resolved"
       /\ server' = "listening" => registryAnswer' = "ok"]_vars

C10_Witness ==
    /\ registryAnswer = "refused"
    /\ startResult = "rejected"
    /\ server = "none"
    /\ liveTimers = {}
    /\ starts = 1

\* The step in which an unregister() call returns.
UnregisterReturned == stopPc = "unregistering" /\ stopPc' = "idle"

\* C11: whatever register() and unregister() calls were made on a registry
\* client, when an unregister() returns no heartbeat timer is live any more, so
\* that no periodic heartbeat follows it (a tick comes from a live timer only).
C11_NoHeartbeatAfterUnregister ==
    [][UnregisterReturned => liveTimers' = {}]_vars

\* C12: at most one periodic heartbeat timer is live at any moment.
C12_SingleHeartbeatTimer == Cardinality(liveTimers) <= 1

\* The step in which the awaited heartbeat of request c settles.
HeartbeatSettled(c) == calls[c].pc = "heartbeat" /\ calls'[c].pc = "done"

\* C13: however the registry request of a heartbeat settles (answered or
\* failed), the request that awaited it is answered 200 with the result, the
\* request identifier, the latency and the cost fixed before the heartbeat was
\* sent, and the statistics and the error counter stay as they were; however
\* the registry request of unregister() settles, unregister() returns and
\* stop() goes on to close the server.
C13_RegistryFailuresSwallowed ==
    [][/\ \A c \in Calls :
            HeartbeatSettled(c) =>
               /\ calls'[c].response =
                     [status |-> 200, data |-> calls[c].invoked,
                      requestId |-> calls[c].requestId,
                      latency |-> calls[c].heartbeat.latency,
                      cost |-> calls[c].reg.price]
               /\ UNCHANGED <<stats, totalLatency, errorCount>>
       /\ UnregisterReturned =>
            /\ server' = "closed"
            /\ UNCHANGED <<stats, totalLatency, errorCount>>]_vars

C13_Witness ==
    /\ \E c, d \in Calls :
          /\ calls[c].heartbeatAnswer = "failed"
          /\ calls[d].heartbeatAnswer = "ok"
          /\ calls[c].response.status = 200
          /\ calls[d].response.status = 200
          /\ calls[c].response.cost = calls[d].response.cost
          /\ stats.requestsServed = 2
          /\ errorCount = 0
    /\ unregisterAnswer = "failed"
    /\ server = "closed"

\* C14: the snapshot a periodic tick hands to heartbeat() holds requestsServed
\* and the error counter as they stand at the tick.
C14_TickSendsLatestSnapshot ==
    [][lastTick' # lastTick =>
          /\ lastTick'.requestsServed = stats.requestsServed
          /\ lastTick'.errors = errorCount]_vars

\* C15: a request whose proof token is neither empty nor the sentinel and whose
\* chain (the header, or 'solana' without one) is not among the configured
\* chains is answered 400 "Unsupported chain" with the list of chains, before
\* any chain query; the /call handler never runs for it and no API handler is
\* invoked.
C15_UnsupportedChainRejected ==
    \A c \in Calls :
        (/\ calls[c].pc # "idle"
         /\ ~IsFreeCall(calls[c].token)
         /\ ChainOf(calls[c].chainHdr) \notin chains) =>
            /\ calls[c].pc = "done"
            /\ calls[c].response =
                  [status |-> 400, error |-> <<"Unsupported chain">>, supported |-> chains]
            /\ calls[c].queries = 0
            /\ calls[c].requestId = 0
            /\ calls[c].invoked = "none"

C15_Witness ==
    \E c \in Calls :
        /\ calls[c].token = "sigPaid"
        /\ calls[c].chainHdr = "base"
        /\ chains = {"solana"}
        /\ calls[c].response.status = 400
        /\ calls[c].queries = 0

\* C15 as stated: every request naming a chain that is not configured is
\* answered 400, whatever its proof token.
C15_AnyTokenRejected ==
    \A c \in Calls :
        (/\ calls[c].pc # "idle"
         /\ calls[c].chainHdr # ""
         /\ calls[c].chainHdr \notin chains) =>
            /\ calls[c].response.status = 400
            /\ calls[c].queries = 0
            /\ calls[c].invoked = "none"

\* C16: every registration has a price of at least 0, and no step lowers
\* requestsServed or totalEarnings.
C16_PricesAndCountersMonotone ==
    [][/\ \A n \in DOMAIN handlers' : handlers'[n].price >= 0
       /\ stats'.requestsServed >= stats.requestsServed
       /\ stats'.totalEarnings >= stats.totalEarnings]_vars

\* The registration the last addAPI call for name n asked for.
LastAdded(n) == Registration(added[n].handler, added[n].price, added[n].timeout)

\* C17: the map holds one registration per name added, the one of the last
\* addAPI call for the name; a request whose lookup finds the name is
\* price-checked against that registration, and if it pays enough, that
\* registration's handler is invoked under that registration's timeout; a
\* request that succeeds is charged the price of the registration it looked up.
C17_LastRegistrationWins ==
    [][/\ DOMAIN handlers' = DOMAIN added'
       /\ \A n \in DOMAIN added' :
             handlers'[n] = Registration(added'[n].handler, added'[n].price,
                                         added'[n].timeout)
       /\ \A c \in Calls :
             /\ (Routed(c) /\ WellShaped(calls'[c]) /\ calls'[c].api.v \in DOMAIN added) =>
                   LET new == LastAdded(calls'[c].api.v) IN
                   IF calls'[c].payment.amount < new.price
                   THEN /\ calls'[c].response.status = 402
                        /\ calls'[c].response.required = new.price
                        /\ calls'[c].invoked = "none"
                   ELSE /\ calls'[c].reg = new
                        /\ calls'[c].invoked = new.handler
                        /\ calls'[c].timerMs = TimeoutOf(new.timeout)
             /\ ResolvedInTime(c) =>
                   stats'.totalEarnings = stats.totalEarnings + calls[c].reg.price]_vars

C17_Witness ==
    \E c, d \in Calls :
        /\ c < d
        /\ calls[c].reg.handler = "h1"
        /\ calls[c].timerMs = DefaultTimeout
        /\ calls[c].response.status = 200
        /\ calls[c].response.cost = 0
        /\ calls[d].token = "sigPaid"
        /\ calls[d].reg = [handler |-> "h2", price |-> 10000, timeout |-> Num(1000)]
        /\ calls[d].invoked = "h2"
        /\ calls[d].timerMs = 1000
        /\ calls[d].response.status = 200
        /\ calls[d].response.cost = 10000
        /\ stats.totalEarnings = 10000
        /\ handlers = [echo |-> calls[d].reg]

\* C18: on a server created without a defaultPrice, an API added without a
\* price is registered at 0.01 USDC.
C18_DefaultPriceIsDocumented ==
    \A n \in DOMAIN added :
        added[n].price = Undefined => handlers[n].price = DocumentedDefaultPrice

\* The step in which request c is answered.
Answered(c) == calls[c].response = NoResponse /\ calls'[c].response # NoResponse

\* A body without a string for api or without an object for params.
Malformed(r) == r.api.t # "string" \/ r.api.v = "" \/ r.params.t # "object"

\* C19: a request is answered by the first stage that fails, in the order
\* Authorize, ValidateShape, Lookup, PriceCheck, Execute.  A request of a
\* supported chain whose proof is not accepted is answered 402 whatever its body
\* and never reaches the /call handler; an authorized request with a malformed
\* body is answered 400 whatever API it names; a well-shaped one for an
\* unregistered API is answered 500 whatever it paid; a handler is invoked only
\* for an authorized, well-shaped request for a registered API.  An answer of
\* Authorize (402) or ValidateShape (400) comes with no handler invoked and with
\* requestsServed, totalEarnings, the cumulative latency and the error counter
\* unchanged.
C19_StagesInOrder ==
    [][\A c \in Calls :
         /\ Answered(c) =>
              /\ (~calls'[c].payment.set /\ ChainOf(calls'[c].chainHdr) \in chains) =>
                    /\ calls'[c].response.status = 402
                    /\ calls'[c].response.error = <<"Invalid payment">>
                    /\ calls'[c].requestId = 0
              /\ (calls'[c].payment.set /\ Malformed(calls'[c])) =>
                    calls'[c].response.status = 400
              /\ (calls'[c].payment.set /\ ~Malformed(calls'[c])
                     /\ calls'[c].reg = NoReg /\ Lookup(calls'[c].api.v) = NoReg) =>
                    calls'[c].response.status = 500
              /\ (calls'[c].response.status = 400
                     \/ (calls'[c].response.status = 402
                           /\ "required" \notin DOMAIN calls'[c].response)) =>
                    /\ calls'[c].invoked = "none"
                    /\ calls'[c].handlerState = "none"
                    /\ UNCHANGED <<stats, totalLatency, errorCount>>
         /\ calls'[c].invoked # "none" =>
              /\ calls'[c].payment.set
              /\ ~Malformed(calls'[c])
              /\ calls'[c].reg # NoReg
              /\ calls'[c].payment.amount >= calls'[c].reg.price]_vars

C19_Witness ==
    \E c, d \in Calls :
        /\ calls[c].token = "sigWrongOwner"
        /\ calls[c].api = Undefined
        /\ calls[c].response.status = 402
        /\ calls[c].queries = 2
        /\ calls[d].token = FreeToken
        /\ calls[d].params = Undefined
        /\ calls[d].api = Str("missing")
        /\ calls[d].response.status = 400
        /\ errorCount = 0
        /\ stats.requestsServed = 0

\* The requests that took the success path: their handler won the race.
Succeeded == {c \in Calls : calls[c].heartbeat.sent}

RECURSIVE SumOver(_, _)
SumOver(f, S) ==
    IF S = {} THEN 0
    ELSE LET x == CHOOSE y \in S : TRUE IN f[x] + SumOver(f, S \ {x})

\* C20: however concurrent requests interleave, at every moment, and so once
\* all of them have completed, requestsServed is the number of requests that
\* succeeded, totalEarnings the sum of the prices of their registrations, the
\* cumulative latency the sum of their latencies, and averageLatency that sum
\* divided by requestsServed.
C20_StatsAreSumsOverSuccesses ==
    LET price == [c \in Calls |-> IF c \in Succeeded THEN calls[c].reg.price ELSE 0]
        latency == [c \in Calls |-> IF c \in Succeeded THEN calls[c].heartbeat.latency
                                    ELSE 0]
    IN /\ stats.requestsServed = Cardinality(Succeeded)
       /\ stats.totalEarnings = SumOver(price, Succeeded)
       /\ totalLatency = SumOver(latency, Succeeded)
       /\ stats.requestsServed > 0 =>
             /\ stats.averageLatency.den # 0
             /\ RatioEq(stats.averageLatency,
                        Ratio(SumOver(latency, Succeeded), stats.requestsServed))

\* Two requests in flight together, the second recorded before the first, both
\* completed.
C20_Witness ==
    /\ \A c \in Calls : calls[c].pc \in {"idle", "done"}
    /\ \A c \in {1, 2} : calls[c].pc = "done" /\ calls[c].response.status = 200
    /\ calls[1].heartbeat.requestsServed = 2
    /\ calls[2].heartbeat.requestsServed = 1
    /\ calls[1].heartbeat.latency = 2
    /\ calls[2].heartbeat.latency = 1
    /\ stats.requestsServed = 2
    /\ stats.totalEarnings = 20000
    /\ stats.averageLatency = Ratio(3, 2)

\* The step in which the race of request c is decided.
RaceDecided(c) == calls[c].pc = "racing" /\ calls'[c].pc # "racing"

\* The step in which the side that lost the race of request c settles.
LoserSettles(c) ==
    /\ calls[c].pc # "racing"
    /\ \/ calls[c].handlerState = "pending" /\ calls'[c].handlerState # "pending"
       \/ calls[c].timer = "armed" /\ calls'[c].timer = "fired"

\* C21: the side of the race that settles first decides the request: a handler
\* that resolves gives one success update (requestsServed + 1, the error
\* counter unchanged), a handler that rejects or a timer that fires gives one
\* failure update (the error counter + 1, the stats unchanged).  Afterwards no
\* step of the request changes a counter, the answer once given never changes,
\* and the settlement of the losing side changes nothing but that side.
C21_FirstSettlementDecides ==
    [][\A c \in Calls :
         /\ RaceDecided(c) =>
               IF calls'[c].handlerState = "resolved"
               THEN /\ calls'[c].timer = "armed"
                    /\ stats'.requestsServed = stats.requestsServed + 1
                    /\ errorCount' = errorCount
                    /\ calls'[c].response = NoResponse
               ELSE /\ \/ calls'[c].handlerState = "rejected" /\ calls'[c].timer = "armed"
                       \/ calls'[c].handlerState = "pending" /\ calls'[c].timer = "fired"
                    /\ errorCount' = errorCount + 1
                    /\ stats' = stats /\ totalLatency' = totalLatency
                    /\ calls'[c].response.status = 500
         /\ (calls[c].invoked # "none" /\ calls[c].pc # "racing"
                /\ calls'[c] # calls[c]) =>
               UNCHANGED <<stats, totalLatency, errorCount>>
         /\ calls[c].response # NoResponse => calls'[c].response = calls[c].response
         /\ LoserSettles(c) =>
               /\ calls'[c].pc = calls[c].pc
               /\ calls'[c].response = calls[c].response
               /\ calls'[c].heartbeat = calls[c].heartbeat
               /\ UNCHANGED <<stats, totalLatency, errorCount>>]_vars

\* One request timed out and its handler resolved afterwards; another succeeded
\* and its timer fired afterwards.
C21_Witness ==
    \E c, d \in Calls :
        /\ calls[c].pc = "done"
        /\ calls[c].response.status = 500
        /\ calls[c].response.error = <<"Handler timeout">>
        /\ calls[c].handlerState = "resolved"
        /\ calls[d].pc = "done"
        /\ calls[d].response.status = 200
        /\ calls[d].timer = "fired"
        /\ errorCount = 1
        /\ stats.requestsServed = 1

\* C22: the timer of a request's race is set to the timeout of the registration
\* it looked up whenever that registration has one, 0 included, and to the
\* default of 30 seconds only when it has none.
C22_ConfiguredTimeoutIsUsed ==
    \A c \in Calls :
        calls[c].timer # "none" =>
            IF calls[c].reg.timeout.t = "number"
            THEN calls[c].timerMs = calls[c].reg.timeout.v
            ELSE calls[c].timerMs = DefaultTimeout

\* The middleware has finished with request c.
Verified(c) == calls[c].pc \notin {"idle", "txQuery", "accountQuery"}

\* What the verification of request c's proof came to: the claim attached, or
\* the rejection answered.
VerificationOf(c) ==
    IF calls[c].payment.set THEN calls[c].payment ELSE calls[c].response

\* C23: two requests presenting the same proof token for the same chain,
\* one after the other or together, get the same verification result and the
\* same payment claim; in particular a proof accepted for one is accepted for
\* the other.
C23_VerificationIsStateless ==
    \A c, d \in Calls :
        (/\ Verified(c) /\ Verified(d)
         /\ calls[c].token = calls[d].token
         /\ calls[c].chainHdr = calls[d].chainHdr) =>
            /\ calls[c].payment.set = calls[d].payment.set
            /\ VerificationOf(c) = VerificationOf(d)

\* The same transaction paid for two requests that both executed.
C23_Witness ==
    \E c, d \in Calls :
        /\ c # d
        /\ calls[c].token = "sigPaid"
        /\ calls[d].token = "sigPaid"
        /\ calls[c].payment.set /\ calls[d].payment.set
        /\ calls[c].payment = calls[d].payment
        /\ calls[c].response.status = 200
        /\ calls[d].response.status = 200
        /\ stats.totalEarnings = 20000

====
